---- MODULE Spec2Model ----
(***************************************************************************)
(* A model of zengine's JsonForm (zengine/forms/json_form.py): the form    *)
(* serializer, the FormCache snapshot it writes, and the validation that   *)
(* deserialize performs against that snapshot.                             *)
(*                                                                         *)
(* Python values are written as strings: "None" is None, "0" the integer   *)
(* 0, "False" the boolean False, "" the empty string; every other string   *)
(* is a truthy value.  Python 2 semantics are modelled (the repository     *)
(* uses __unicode__, exception indexing and list-valued dict.keys()).      *)
(***************************************************************************)
EXTENDS Integers, Sequences, FiniteSets, TLC

\* ---------------------------------------------------------------- bounds
MaxKeys == 2     \* identifiers uuid4 hands out in one behaviour
MaxTime == 1     \* last clock value
MaxFields == 2   \* longest field list drawn for the serializer runs
MaxPermKeys == 3 \* largest key set submitted in every possible order
MaxValRenders == 1 \* renders in one behaviour of the validator and serializer runs

\* time-to-live of a cache entry, in clock ticks (zengine.lib.cache.Cache)
TTL == 1

\* ---------------------------------------------------------------- values
None == "None"

\* bool(v) of Python
Truthy(v) == v \notin {"None", "0", "False", ""}

Range(s) == {s[i] : i \in 1..Len(s)}

EmptyMap == [k \in {} |-> ""]

\* dict.update
Update(f, g) == [k \in DOMAIN f \cup DOMAIN g |-> IF k \in DOMAIN g THEN g[k] ELSE f[k]]

\* dict.pop(key) seen as the remaining dict
Without(f, key) == [k \in DOMAIN f \ {key} |-> f[k]]

\* a Python dict whose key order is the insertion order
EmptyDict == [keys |-> <<>>, val |-> EmptyMap]

DictPut(d, k, v) ==
    [keys |-> IF k \in DOMAIN d.val THEN d.keys ELSE Append(d.keys, k),
     val  |-> Update(d.val, [x \in {k} |-> v])]

RECURSIVE Perms(_)
Perms(S) == IF S = {} THEN {<<>>}
            ELSE UNION {{<<x>> \o p : p \in Perms(S \ {x})} : x \in S}

\* ------------------------------------------------------ field descriptors
\* A declared attribute of a form class.  cls is the Python class of the
\* attribute: "Field" (a BaseField), "Button" (a BaseField that is a Button),
\* "Node" (a ListNode/Node class) or "Link" (a linked model).
Fld(name, cls, type, title, required, order, default, choices, kwargs) ==
    [name |-> name, cls |-> cls, type |-> type, title |-> title,
     required |-> required, order |-> order, default |-> default,
     choices |-> choices, kwargs |-> kwargs]

Kw(k, v) == [x \in {k} |-> v]

NoChoices == <<>>

\* the form classes of the cache-protocol runs, in declaration order
TestForm ==
    << Fld("code", "Field", "string", "Code Field", TRUE, 1, None, NoChoices, EmptyMap),
       Fld("no", "Field", "integer", "Part No", FALSE, 2, None, NoChoices, Kw("hidden", "True")),
       Fld("save", "Button", "button", "Save", FALSE, 3, None, NoChoices, Kw("cmd", "save_it")) >>

PersonForm ==
    << Fld("name", "Field", "string", "Name", TRUE, 1, None, NoChoices, EmptyMap) >>

FormClasses == {"TestForm", "PersonForm"}

ClassFields(cls) == IF cls = "TestForm" THEN TestForm ELSE PersonForm

\* class Meta of a form class
ClassMeta(cls) ==
    IF cls = "TestForm"
    THEN [title |-> "Form Title", help_text |-> "Form help text", inline_edit |-> "True"]
    ELSE [title |-> "Person", help_text |-> None]

\* is_in_db() of the form's model: JsonForm itself answers False, a form
\* built on a stored record answers True
ClassInDb(cls) == cls = "PersonForm"

\* --------------------------------------------------------- Field Registry
RECURSIVE InsertByOrder(_, _)
InsertByOrder(sorted, f) ==
    IF sorted = <<>> THEN <<f>>
    ELSE IF sorted[Len(sorted)].order <= f.order THEN Append(sorted, f)
    ELSE Append(InsertByOrder(SubSeq(sorted, 1, Len(sorted) - 1), f), sorted[Len(sorted)])

RECURSIVE SortByOrder(_)
SortByOrder(fs) ==
    IF fs = <<>> THEN <<>>
    ELSE InsertByOrder(SortByOrder(SubSeq(fs, 1, Len(fs) - 1)), fs[Len(fs)])

IsBaseField(f) == f.cls \in {"Field", "Button"}

IsButton(f) == f.cls = "Button"

IsNode(f) == f.cls \in {"Node", "Link"}

Names(fs) == [i \in 1..Len(fs) |-> fs[i].name]

\* list(__dict__.items()) of Python 2: the declared attributes in the order
\* the hash table of the dict hands them out, which can be any order
DictOrders(items) ==
    {[i \in 1..Len(items) |-> items[p[i]]] : p \in Perms(1..Len(items))}

\* JsonForm.process_form on the scanned attributes: the registry of one
\* instance.  self._fields is a dict as well; its items() reach sorted() in
\* the hash order of the same names.
ProcessForm(items) ==
    [non_data_fields |-> Names(SelectSeq(items, IsButton)),
     ordered_fields  |-> SortByOrder(SelectSeq(items, IsBaseField))]

\* JsonForm._prepare_nodes
PrepareNodes(items) == SelectSeq(items, IsNode)

\* JsonForm.__init__ of a class that declares items; scan is the order in
\* which the class dict hands them out
NewInstance(cls, items, scan, meta, in_db) ==
    [cls |-> cls, in_db |-> in_db, items |-> items, meta |-> meta,
     nodes |-> PrepareNodes(scan),
     non_data_fields |-> ProcessForm(scan).non_data_fields,
     ordered_fields |-> ProcessForm(scan).ordered_fields,
     values |-> [n \in Range(Names(SelectSeq(items, IsBaseField))) |-> None]]

\* JsonForm.set_data: every registered field takes data.get(name)
SetDataOn(inst, data) ==
    [inst EXCEPT !.values =
        [n \in DOMAIN inst.values |-> IF n \in DOMAIN data THEN data[n] ELSE None]]

\* ------------------------------------------------------------- Serializer
\* ModelForm._serialize: one item per registered field, in registry order,
\* then one per composite attribute.  A composite item carries no kwargs.
FieldItem(inst, f) ==
    [name |-> f.name, type |-> f.type, title |-> f.title,
     value |-> inst.values[f.name], default |-> f.default,
     required |-> f.required, choices |-> f.choices,
     haskw |-> TRUE, kwargs |-> f.kwargs,
     model_name |-> "", hasschema |-> FALSE]

NodeItem(f) ==
    [name |-> f.name, type |-> f.type, title |-> f.title,
     value |-> None, default |-> None,
     required |-> FALSE, choices |-> NoChoices,
     haskw |-> FALSE, kwargs |-> EmptyMap,
     model_name |-> f.title, hasschema |-> f.cls = "Node"]

SerializeItems(inst) ==
    [i \in 1..Len(inst.ordered_fields) |-> FieldItem(inst, inst.ordered_fields[i])]
    \o [i \in 1..Len(inst.nodes) |-> NodeItem(inst.nodes[i])]

META_TO_FORM_ROOT == {"inline_edit"}

CompositeTypes == {"ListNode", "model", "Node"}

\* entries of the "form" render list
HelpEntry(text) == [kind |-> "help", key |-> "", title |-> "", helpvalue |-> text, titleMap |-> <<>>]

NameEntry(name) == [kind |-> "name", key |-> name, title |-> "", helpvalue |-> "", titleMap |-> <<>>]

SelectEntry(name, title, titleMap) ==
    [kind |-> "select", key |-> name, title |-> title, helpvalue |-> "", titleMap |-> titleMap]

\* ModelForm.get_choices: choice pairs to the {value, label} list of the UI
GetChoices(choices) ==
    [i \in 1..Len(choices) |-> [value |-> choices[i][1], label |-> choices[i][2]]]

\* serialize, lines 235-236: a falsy value gives way to kwargs['value']
TakesKwValue(itm) == ~Truthy(itm.value) /\ itm.haskw /\ "value" \in DOMAIN itm.kwargs

ItemValue(itm) == IF TakesKwValue(itm) THEN itm.kwargs["value"] ELSE itm.value

\* serialize, line 241: itm['value'] or itm['default']
ModelValue(itm) == IF Truthy(ItemValue(itm)) THEN ItemValue(itm) ELSE itm.default

\* a plausible slip: the hint is looked up under another name
IsHiddenItemWrongKey(itm) == itm.type \notin CompositeTypes /\ "hide" \in DOMAIN itm.kwargs

\* serialize, lines 246-247: the item is written to "model" only
IsHiddenItem(itm) == itm.type \notin CompositeTypes /\ "hidden" \in DOMAIN itm.kwargs

\* a plausible slip: the bare name is appended after the select entry as well
HandleChoicesAndName(itm, item_props, result) ==
    [props  |-> Update(item_props, Kw("type", "select")),
     result |-> [result EXCEPT !.form =
                    Append(Append(@, SelectEntry(itm.name, itm.title, GetChoices(itm.choices))),
                           NameEntry(itm.name))]]

\* serialize, lines 307-314
HandleChoices(itm, item_props, result) ==
    [props  |-> Update(item_props, Kw("type", "select")),
     result |-> [result EXCEPT !.form =
                    Append(@, SelectEntry(itm.name, itm.title, GetChoices(itm.choices)))]]

\* serialize, lines 233-273: the loop body for one item
SerializeItem(result, itm) ==
    LET kw1 == IF TakesKwValue(itm) THEN Without(itm.kwargs, "value") ELSE itm.kwargs
        hasWidget == itm.haskw /\ "widget" \in DOMAIN kw1
        props1 == IF hasWidget
                  THEN [type |-> itm.type, title |-> itm.title, widget |-> kw1["widget"]]
                  ELSE [type |-> itm.type, title |-> itm.title]
        kw2 == IF hasWidget THEN Without(kw1, "widget") ELSE kw1
        res1 == [result EXCEPT !.model = DictPut(@, itm.name, ModelValue(itm))]
        props2 == IF itm.type = "model"
                  THEN Update(props1, Kw("model_name", itm.model_name)) ELSE props1
        props3 == IF itm.type \notin CompositeTypes THEN Update(props2, kw2) ELSE props2
        chosen == IF itm.choices # NoChoices
                  THEN HandleChoices(itm, props3, res1)
                  ELSE [props  |-> props3,
                        result |-> [res1 EXCEPT !.form = Append(@, NameEntry(itm.name))]]
        props4 == IF itm.hasschema
                  THEN Update(chosen.props, Kw("schema", "schema")) ELSE chosen.props
        props5 == IF props4["type"] = "model"
                  THEN Update(props4, [add_cmd |-> "add_edit_form",
                                       list_cmd |-> "select_list", wf |-> "crud"])
                  ELSE props4
        res2 == [chosen.result EXCEPT
                    !.schema.properties = Update(@, [x \in {itm.name} |-> props5]),
                    !.schema.required = IF itm.required THEN Append(@, itm.name) ELSE @]
    IN  IF IsHiddenItem(itm) THEN res1 ELSE res2

RECURSIVE SerializeLoop(_, _)
SerializeLoop(result, items) ==
    IF items = <<>> THEN result
    ELSE SerializeLoop(SerializeItem(result, Head(items)), Tail(items))

\* a plausible slip: the render list starts empty
InitialResultNoHelp(inst) ==
    [schema |-> [title |-> inst.meta["title"], type |-> "object",
                 properties |-> EmptyMap, required |-> <<>>],
     form   |-> <<>>,
     model  |-> IF inst.in_db
                THEN DictPut(DictPut(DictPut(EmptyDict, "object_key", "obj1"),
                                     "model_type", inst.cls), "unicode", "label")
                ELSE EmptyDict,
     root   |-> [k \in META_TO_FORM_ROOT \cap DOMAIN inst.meta |-> inst.meta[k]]]

\* serialize, lines 208-230: the containers before the loop
InitialResult(inst) ==
    LET model0 == IF inst.in_db
                  THEN DictPut(DictPut(DictPut(EmptyDict, "object_key", "obj1"),
                                       "model_type", inst.cls), "unicode", "label")
                  ELSE EmptyDict
    IN  [schema |-> [title |-> inst.meta["title"], type |-> "object",
                     properties |-> EmptyMap, required |-> <<>>],
         form   |-> <<HelpEntry(inst.meta["help_text"])>>,
         model  |-> model0,
         root   |-> [k \in META_TO_FORM_ROOT \cap DOMAIN inst.meta |-> inst.meta[k]]]

\* serialize, lines 208-273: everything before the cache write
BuildResult(inst) == SerializeLoop(InitialResult(inst), SerializeItems(inst))

\* ----------------------------------------------------------- Schema Cache
KeyNames == <<"k1", "k2", "k3", "k4", "k5", "k6">>

\* the identifiers uuid4().hex can return in one behaviour
FormIds == {KeyNames[i] : i \in 1..MaxKeys}

\* Cache with SERIALIZE = True stores json.dumps(value) and get() hands back
\* json.loads of it.  The JSON text of a snapshot is written as its token
\* list: [ names ] [ names ]
JsonDumps(value) ==
    <<"[">> \o value.model \o <<"]", "[">> \o value.non_data_fields \o <<"]">>

FirstClose(text) == CHOOSE i \in 1..Len(text) :
                        text[i] = "]" /\ \A j \in 1..(i - 1) : text[j] # "]"

JsonLoads(text) ==
    [model |-> SubSeq(text, 2, FirstClose(text) - 1),
     non_data_fields |-> SubSeq(text, FirstClose(text) + 2, Len(text) - 1)]

\* a plausible slip: the default identifier is made once, when the class is
\* defined (def __init__(self, form_id=uuid4().hex))
FormCacheInitOnce(form_id, fresh) == IF ~Truthy(form_id) THEN KeyNames[1] ELSE form_id

\* a plausible slip: the identifier never reaches Cache.__init__, so every
\* cache object stands for the one key of the class PREFIX
FormCacheInitShared(form_id, fresh) == KeyNames[1]

\* a plausible slip: the identifier handed in is dropped
FormCacheInitFresh(form_id, fresh) == fresh

\* FormCache.__init__: the identifier of the cache object
FormCacheInit(form_id, fresh) == IF ~Truthy(form_id) THEN fresh ELSE form_id

\* Cache.set: store the serialized value under the key, with the TTL
CacheSet(store, key, value, t) ==
    Update(store, [k \in {key} |-> [text |-> JsonDumps(value), expires |-> t + TTL]])

\* the store holds a key until its expiry time
CacheHas(store, key, t) == key \in DOMAIN store /\ t < store[key].expires

\* Cache.get of a key the store holds
CacheGet(store, key) == JsonLoads(store[key].text)

NoDetails == [model |-> <<>>, non_data_fields |-> <<>>]

\* ---------------------------------------------------- Deserializer/Validator
\* deserialize, lines 282-283: filter(lambda x: x not in cached, keys)
NotMatching(keys, cached) ==
    LET Extra(x) == x \notin Range(cached) IN SelectSeq(keys, Extra)

\* a plausible slip: the filter looks for cached names the client left out
KeyCheckMissing(keys, cached) ==
    LET Missing(x) == x \notin Range(keys)
    IN  [raised |-> keys # cached /\ SelectSeq(cached, Missing) # <<>>,
         names  |-> SelectSeq(cached, Missing)]

\* a plausible slip: any difference between the two lists is an error
KeyCheckStrict(keys, cached) ==
    [raised |-> keys # cached, names |-> NotMatching(keys, cached)]

\* a plausible slip: a cached name the client left out is an error as well
KeyCheckBothWays(keys, cached) ==
    LET Missing(x) == x \notin Range(keys)
    IN  [raised |-> keys # cached /\ (NotMatching(keys, cached) # <<>>
                                       \/ SelectSeq(cached, Missing) # <<>>),
         names  |-> NotMatching(keys, cached)]

\* deserialize, lines 281-285: whether FormValidationError is raised, and
\* the names its message carries
KeyCheck(keys, cached) ==
    [raised |-> keys # cached /\ NotMatching(keys, cached) # <<>>,
     names  |-> NotMatching(keys, cached)]

\* a plausible slip: the flag is not consulted
ValidatingAlways(keys, do_validation) == keys # <<>>

\* deserialize, line 278: if form_data and do_validation
Validating(keys, do_validation) == keys # <<>> /\ do_validation

\* a plausible slip: the list computed at construction stays
AdoptedListKept(validating, form_details, inst) == inst.non_data_fields

\* deserialize, line 286: the list the instance holds when binding starts
AdoptedList(validating, form_details, inst) ==
    IF validating THEN form_details.non_data_fields ELSE inst.non_data_fields

\* ModelForm._deserialize: bind every submitted value to its field;
\* action-only names carry no data
Bind(inst, non_data_fields, keys, data) ==
    [inst EXCEPT
        !.non_data_fields = non_data_fields,
        !.values = [n \in DOMAIN inst.values |->
                       IF n \in Range(keys) /\ n \notin Range(non_data_fields)
                       THEN data[n] ELSE inst.values[n]]]

\* a plausible slip: the data is bound first and the keys are checked after
EndingBoundFirst(inst, outcome, ndf, keys, data) ==
    IF outcome \in {"bound", "FormValidationError"}
    THEN Bind(inst, ndf, keys, data) ELSE inst

\* deserialize, lines 285-287: an exception leaves before lines 286 and 287
\* have run; otherwise the list is adopted and the data bound
Ending(inst, outcome, ndf, keys, data) ==
    IF outcome = "bound" THEN Bind(inst, ndf, keys, data) ELSE inst

\* ------------------------------------------------------------------ state
VARIABLES
    form,      \* the bound form instance of the request being served
    cache,     \* the keyed store behind FormCache: key -> text and expiry
    issued,    \* identifiers uuid4 has returned so far
    now,       \* the clock of the store
    written,   \* history: key -> snapshot handed to Cache.set, when, and the
               \* model returned to the client
    out,       \* what the serialize call that just returned handed back
    des        \* the deserialize call that just returned: input and ending

vars == <<form, cache, issued, now, written, out, des>>

NoCall ==
    [called |-> FALSE, keys |-> <<>>, data |-> EmptyMap,
     validate |-> FALSE, outcome |-> "none", not_matching |-> <<>>,
     fetched |-> FALSE, key |-> "", hit |-> FALSE, got |-> NoDetails,
     before |-> <<>>]

NoOutput ==
    [made |-> FALSE, error |-> "", key |-> "",
     result |-> [schema |-> [title |-> "", type |-> "", properties |-> EmptyMap,
                             required |-> <<>>],
                 form |-> <<>>, model |-> EmptyDict, root |-> EmptyMap]]

\* no call has just returned
Idle == out = NoOutput /\ des = NoCall

FormOf(cls, scan) ==
    NewInstance(cls, ClassFields(cls), scan, ClassMeta(cls), ClassInDb(cls))

Init ==
    /\ form \in {FormOf("TestForm", scan) : scan \in DictOrders(TestForm)}
    /\ cache = EmptyMap
    /\ issued = {}
    /\ now = 0
    /\ written = EmptyMap
    /\ out = NoOutput
    /\ des = NoCall

\* the data a request fills its form with
DataSet(cls) == IF cls = "TestForm" THEN [code |-> "abc"] ELSE [name |-> "ann"]

\* uuid4().hex: an identifier never returned before
Uuid4 == KeyNames[Cardinality(issued) + 1]

\* a request builds its form: JsonForm.__init__
NewForm(cls) ==
    /\ Idle
    /\ \E scan \in DictOrders(ClassFields(cls)) :
          /\ form # FormOf(cls, scan)
          /\ form' = FormOf(cls, scan)
    /\ UNCHANGED <<cache, issued, now, written, out, des>>

\* JsonForm.set_data
SetData(data) ==
    /\ Idle
    /\ form # SetDataOn(form, data)
    /\ form' = SetDataOn(form, data)
    /\ UNCHANGED <<cache, issued, now, written, out, des>>

\* a plausible slip: the names are taken before form_key is put in the model
CacheFormDetailsEarly(inst, result, fresh) ==
    LET form_id == FormCacheInit(None, fresh)
        keyed == [result EXCEPT !.model = DictPut(@, "form_key", form_id)]
    IN  [result |-> keyed,
         key    |-> form_id,
         value  |-> [model |-> result.model.keys,
                     non_data_fields |-> inst.non_data_fields]]

\* a plausible slip: the identifier is not put in the model
CacheFormDetailsUnkeyed(inst, result, fresh) ==
    [result |-> result,
     key    |-> FormCacheInit(None, fresh),
     value  |-> [model |-> Append(result.model.keys, "form_key"),
                 non_data_fields |-> inst.non_data_fields]]

\* JsonForm._cache_form_details with the identifier uuid4 returned
CacheFormDetails(inst, result, fresh) ==
    LET form_id == FormCacheInit(None, fresh)
        keyed == [result EXCEPT !.model = DictPut(@, "form_key", form_id)]
    IN  [result |-> keyed,
         key    |-> form_id,
         value  |-> [model |-> keyed.model.keys,
                     non_data_fields |-> inst.non_data_fields]]

\* JsonForm.serialize
Serialize ==
    /\ Idle
    /\ Cardinality(issued) < MaxKeys
    /\ LET c == CacheFormDetails(form, BuildResult(form), Uuid4)
       IN  /\ cache' = CacheSet(cache, c.key, c.value, now)
           /\ written' = Update(written, [k \in {c.key} |->
                            [value |-> c.value, at |-> now, model |-> c.result.model.val]])
           /\ out' = [made |-> TRUE, error |-> "", key |-> c.key, result |-> c.result]
    /\ issued' = issued \cup {Uuid4}
    /\ UNCHANGED <<form, now, des>>

\* JsonForm.serialize with the store out of reach: cache.set raises inside
\* _cache_form_details, nothing catches it, and serialize returns nothing
SerializeCacheDown ==
    /\ Idle
    /\ Cardinality(issued) < MaxKeys
    /\ out' = [NoOutput EXCEPT !.error = "CacheError"]
    /\ issued' = issued \cup {Uuid4}
    /\ UNCHANGED <<form, cache, now, written, des>>

\* JsonForm.deserialize
Deserialize(keys, data, do_validation) ==
    LET validating == Validating(keys, do_validation)
        haskey == "form_key" \in Range(keys)
        fetching == validating /\ haskey
        usesFresh == fetching /\ ~Truthy(data["form_key"])
        form_id == IF fetching THEN FormCacheInit(data["form_key"], Uuid4) ELSE ""
        hit == fetching /\ CacheHas(cache, form_id, now)
        form_details == IF hit THEN CacheGet(cache, form_id) ELSE NoDetails
        check == KeyCheck(keys, form_details.model)
        outcome == IF ~validating THEN "bound"
                   ELSE IF ~haskey THEN "KeyError"
                   ELSE IF ~hit THEN "TypeError"
                   ELSE IF check.raised THEN "FormValidationError"
                   ELSE "bound"
        ndf == AdoptedList(validating, form_details, form)
    IN  /\ Idle
        /\ usesFresh => Cardinality(issued) < MaxKeys
        /\ issued' = IF usesFresh THEN issued \cup {Uuid4} ELSE issued
        /\ form' = Ending(form, outcome, ndf, keys, data)
        /\ des' = [called |-> TRUE, keys |-> keys, data |-> data,
                   validate |-> do_validation, outcome |-> outcome,
                   not_matching |-> IF outcome = "FormValidationError"
                                    THEN check.names ELSE <<>>,
                   fetched |-> fetching, key |-> form_id, hit |-> hit,
                   got |-> form_details,
                   before |-> form.non_data_fields]
        /\ UNCHANGED <<cache, now, written, out>>

\* the caller takes what the call returned; the next call can start
Return ==
    /\ ~Idle
    /\ out' = NoOutput
    /\ des' = NoCall
    /\ UNCHANGED <<form, cache, issued, now, written>>

\* the clock of the store advances
Tick ==
    /\ Idle
    /\ now < MaxTime
    /\ now' = now + 1
    /\ UNCHANGED <<form, cache, issued, written, out, des>>

\* ------------------------------------------------------- what clients send
ForgedIds == {"bogus", ""}

\* a submission starts from a model some render returned, or from a made-up
\* one whose form_key names no render
Bases ==
    {[keys |-> written[k].value.model, val |-> written[k].model] : k \in DOMAIN written}
    \cup {[keys |-> <<"code", "form_key">>, val |-> [form_key |-> id, code |-> "abc"]] :
             id \in ForgedIds}

\* the mapping a client submits: the values of the base, "1" for a foreign key
Submission(base, keys) ==
    [k \in Range(keys) |-> IF k \in DOMAIN base.val THEN base.val[k] ELSE "1"]

IsDataKey(k) == k # "form_key"

\* the key orders of the protocol runs: the returned model as it is, with one
\* foreign key in front, cut down to form_key, without form_key, and nothing
KeyLists(base) ==
    {base.keys, <<"evil">> \o base.keys, <<"form_key">>,
     SelectSeq(base.keys, IsDataKey), <<>>}

SubmitFew ==
    /\ Idle
    /\ \E base \in Bases, do_validation \in BOOLEAN :
      \E keys \in KeyLists(base) :
          Deserialize(keys, Submission(base, keys), do_validation)

Next ==
    \/ \E cls \in FormClasses : NewForm(cls)
    \/ SetData(DataSet(form.cls))
    \/ Serialize
    \/ SerializeCacheDown
    \/ SubmitFew
    \/ Return
    \/ Tick

Spec == Init /\ [][Next]_vars

\* ------------------------------------------- the validator on every shape
ExtraKeys == {"evil"}

Reverse(s) == [i \in 1..Len(s) |-> s[Len(s) + 1 - i]]

\* the key lists a client can send for a key set: every order of a small
\* set, the rendered order and its reverse of a larger one
Orders(base, S) ==
    LET Kept(k) == k \in S
        inOrder == SelectSeq(base.keys \o <<"evil">>, Kept)
    IN  IF Cardinality(S) <= MaxPermKeys THEN Perms(S)
        ELSE {inOrder, Reverse(inOrder)}

SubmitAny ==
    /\ Idle
    /\ \E base \in Bases :
      \E kept \in SUBSET Range(base.keys), extra \in SUBSET ExtraKeys :
        \E keys \in Orders(base, kept \cup extra) :
            Deserialize(keys, Submission(base, keys), TRUE)

NextVal ==
    \/ \E cls \in FormClasses : NewForm(cls)
    \/ SetData(DataSet(form.cls))
    \/ (Cardinality(DOMAIN written) < MaxValRenders /\ Serialize)
    \/ SubmitAny
    \/ Return

\* renders and validations with the clock standing still
ValSpec == Init /\ [][NextVal]_vars

\* ------------------------------------------ the serializer on drawn forms
FieldNames == <<"f1", "f2", "f3", "f4">>

Values == {None, "0", "x"}

TwoChoices == << <<"1", "A">>, <<"2", "B">> >>

Kinds == {"plain", "optional", "hidden", "shown", "choice", "button", "preset",
          "node", "link"}

\* the declaration of one attribute of a drawn form class
Describe(kind, name) ==
    CASE kind = "plain"    -> Fld(name, "Field", "string", "Plain", TRUE, 2, None, NoChoices, EmptyMap)
      [] kind = "optional" -> Fld(name, "Field", "integer", "Optional", FALSE, 1, "5", NoChoices, EmptyMap)
      [] kind = "hidden"   -> Fld(name, "Field", "string", "Hidden", TRUE, 1, "5", TwoChoices,
                                  Kw("hidden", "True"))
      [] kind = "shown"    -> Fld(name, "Field", "string", "Shown", FALSE, 1, None, NoChoices,
                                  Kw("hidden", "False"))
      [] kind = "choice"   -> Fld(name, "Field", "integer", "Choice", TRUE, 1, None, TwoChoices, EmptyMap)
      [] kind = "button"   -> Fld(name, "Button", "button", "Save", FALSE, 3, None, NoChoices,
                                  Kw("cmd", "save_it"))
      [] kind = "preset"   -> Fld(name, "Field", "string", "Preset", FALSE, 1, "5", NoChoices,
                                  [value |-> "kv", widget |-> "w"])
      [] kind = "node"     -> Fld(name, "Node", "ListNode", "SomeFoos", FALSE, 0, None, NoChoices, EmptyMap)
      [] OTHER             -> Fld(name, "Link", "model", "Person", FALSE, 0, None, NoChoices, EmptyMap)

\* the attribute lists of at most max declarations
DrawnItems(max) ==
    UNION {{[i \in 1..n |-> Describe(ks[i], FieldNames[i])] : ks \in [1..n -> Kinds]} :
              n \in 1..max}

\* the data a drawn form is filled with: nothing, or one value for one field
DrawnData(names) ==
    {[n \in names |-> None]}
    \cup {[n \in names |-> IF n = m THEN v ELSE None] : m \in names, v \in Values \ {None}}

\* the instances of the drawn classes, each filled with drawn data; a drawn
\* class is a plain JsonForm, whose is_in_db() answers False
DrawnForms(max) ==
    UNION {{SetDataOn(NewInstance("Drawn", items, scan, ClassMeta("TestForm"), FALSE), data) :
               scan \in DictOrders(items),
               data \in DrawnData(Range(Names(SelectSeq(items, IsBaseField))))} :
              items \in DrawnItems(max)}

InitSer ==
    /\ form \in DrawnForms(MaxFields)
    /\ cache = EmptyMap
    /\ issued = {}
    /\ now = 0
    /\ written = EmptyMap
    /\ out = NoOutput
    /\ des = NoCall

NextSer ==
    \/ (Cardinality(DOMAIN written) < MaxValRenders /\ Serialize)
    \/ Return

\* serialize applied to every drawn form
SerSpec == InitSer /\ [][NextSer]_vars

\* ----------------------------------------------------------------- claims
\* the validation that just returned read a live entry written by a render
Validated == des.called /\ des.validate /\ des.hit /\ des.key \in DOMAIN written

\* the model the render of the validated key returned, and the list it cached
ReturnedModel == written[des.key].model

CachedNames == written[des.key].value.model

\* the submission is the returned model plus exactly one key it did not hold
TamperCase ==
    /\ Validated
    /\ DOMAIN ReturnedModel \subseteq Range(des.keys)
    /\ Cardinality(Range(des.keys) \ DOMAIN ReturnedModel) = 1
    /\ \A k \in DOMAIN ReturnedModel : des.data[k] = ReturnedModel[k]

TheExtraKey == CHOOSE x \in Range(des.keys) : x \notin DOMAIN ReturnedModel

\* C1: a validated submission of the returned model plus one foreign key, in
\* any key order, ends in FormValidationError whose names are that one key,
\* and the instance is left as it was (nothing is bound).
C1_TamperRejected ==
    [][TamperCase' =>
          /\ des'.outcome = "FormValidationError"
          /\ des'.not_matching = <<TheExtraKey'>>
          /\ form' = form]_vars

C1_Witness ==
    /\ TamperCase
    /\ des.outcome = "FormValidationError"
    /\ des.keys[1] # "evil"
    /\ Len(des.keys) >= 4

\* the submission is the returned model, key for key and value for value
RoundTripCase == Validated /\ des.data = ReturnedModel

HiddenNames(inst) ==
    {inst.items[i].name : i \in {j \in 1..Len(inst.items) :
                                    "hidden" \in DOMAIN inst.items[j].kwargs}}

ButtonNames(inst) == Range(Names(SelectSeq(inst.items, IsButton)))

\* C2: a validated submission of the unchanged returned model, in any key
\* order, raises nothing, reaches binding, and leaves every submitted
\* non-hidden, non-action field of the instance holding the submitted value.
C2_RoundTrip ==
    RoundTripCase =>
        /\ des.outcome = "bound"
        /\ \A f \in DOMAIN form.values \cap DOMAIN des.data :
              (f \notin HiddenNames(form) /\ f \notin ButtonNames(form)
                  /\ f \notin Range(form.non_data_fields))
              => form.values[f] = des.data[f]

C2_Witness ==
    /\ RoundTripCase
    /\ des.keys # CachedNames
    /\ des.outcome = "bound"
    /\ "code" \in DOMAIN des.data
    /\ form.cls = "TestForm"
    /\ form.values["code"] = "abc"

\* the submission holds form_key and only names the render cached
OmissionCase ==
    /\ Validated
    /\ "form_key" \in Range(des.keys)
    /\ Range(des.keys) \subseteq Range(CachedNames)

\* C4: a validated submission whose keys are form_key and any subset of the
\* cached names, in any order, raises no FormValidationError and is bound.
C4_OmissionTolerated == OmissionCase => des.outcome = "bound"

C4_Witness ==
    /\ OmissionCase
    /\ Len(des.keys) >= 2
    /\ Len(des.keys) < Len(CachedNames)
    /\ des.keys[1] # CachedNames[1]
    /\ des.outcome = "bound"

\* C3: a validating deserialize whose form_key has no live entry ends in a
\* NotFound-style validation error saying the form can no longer be
\* validated, in no other error, and binds nothing.
C3_CacheMissReported ==
    (des.called /\ des.fetched /\ ~des.hit) => des.outcome = "CacheMiss"

InjectedKeys == {"form_key", "object_key", "model_type", "unicode"}

\* the snapshot the store holds under the key serialize just returned
StoredSnapshot == CacheGet(cache, out.key)

\* C5 as stated: after serialize the cached names are the keys of the
\* returned model without the injected keys, and the cached non-data list is
\* the Button names of the form.
C5_SnapshotWithoutInjected ==
    out.made =>
        /\ Range(StoredSnapshot.model) = DOMAIN out.result.model.val \ InjectedKeys
        /\ Range(StoredSnapshot.non_data_fields) = ButtonNames(form)

\* C5: after serialize the cached name list is the key list of the returned
\* model, injected keys included, and the cached non-data list is the
\* instance's non_data_fields list as it stands at the call.
C5_SnapshotIsModelKeys ==
    out.made =>
        /\ CacheHas(cache, out.key, now)
        /\ out.result.model.val["form_key"] = out.key
        /\ StoredSnapshot.model = out.result.model.keys
        /\ Range(StoredSnapshot.model) = DOMAIN out.result.model.val
        /\ StoredSnapshot.non_data_fields = form.non_data_fields

C5_Witness ==
    /\ out.made
    /\ form.cls = "PersonForm"
    /\ "object_key" \in Range(StoredSnapshot.model)
    /\ form.non_data_fields = <<"save">>

\* the key a validating deserialize was asked to look up
AskedKey == des.data["form_key"]

FetchOfRender == des.called /\ des.fetched /\ AskedKey \in DOMAIN written

\* C6: a fetch of a rendered key before its TTL has elapsed gives back the
\* snapshot that was stored, whole; a fetch from the TTL on is a miss.
C6_Expiry ==
    FetchOfRender =>
        IF now < written[AskedKey].at + TTL
        THEN des.hit /\ des.got = written[AskedKey].value
        ELSE ~des.hit /\ des.got = NoDetails

C6_Witness ==
    /\ FetchOfRender
    /\ now >= written[AskedKey].at + TTL
    /\ ~des.hit
    /\ \E k \in DOMAIN written : CacheHas(cache, k, now)

\* the lists validations are tried with when two states are compared
ProbeLists(k) ==
    KeyLists([keys |-> written[k].value.model, val |-> written[k].model])

\* C8: an entry that is live keeps its text and its expiry in every step; a
\* deserialize call leaves the whole store as it was; and when the store
\* changes, every key list still gets the same verdict from each entry that
\* was live and still is.
C8_EntryImmutable ==
    [][/\ \A k \in DOMAIN cache :
            CacheHas(cache, k, now) => (k \in DOMAIN cache' /\ cache'[k] = cache[k])
       /\ cache' # cache =>
            \A k \in DOMAIN cache :
                (CacheHas(cache, k, now) /\ CacheHas(cache', k, now')) =>
                    \A keys \in ProbeLists(k) :
                        KeyCheck(keys, CacheGet(cache', k).model)
                            = KeyCheck(keys, CacheGet(cache, k).model)
       /\ (des'.called /\ ~des.called) => cache' = cache]_vars

C8_Witness ==
    /\ des.called
    /\ des.hit
    /\ des.outcome = "FormValidationError"
    /\ Cardinality({k \in DOMAIN cache : CacheHas(cache, k, now)}) = 2

\* the declared attributes of the instance that are fields with kwargs
DeclaredFields(inst) == {inst.items[i] : i \in {j \in 1..Len(inst.items) : IsBaseField(inst.items[j])}}

MarkedHidden(f) == "hidden" \in DOMAIN f.kwargs /\ Truthy(f.kwargs["hidden"])

FormListKeys(result) == {result.form[i].key : i \in {j \in 1..Len(result.form) :
                                                     result.form[j].kind # "help"}}

\* C9: after serialize a field marked hidden is a key of model and is named
\* neither in the form list nor in schema.properties, and a field not marked
\* hidden is a key of schema.properties.
C9_HiddenExclusion ==
    out.made =>
        \A f \in DeclaredFields(form) :
            IF MarkedHidden(f)
            THEN /\ f.name \in DOMAIN out.result.model.val
                 /\ f.name \notin FormListKeys(out.result)
                 /\ f.name \notin DOMAIN out.result.schema.properties
            ELSE f.name \in DOMAIN out.result.schema.properties

\* C10: after serialize model[name] is the field's value whenever one is
\* present (0, False and the empty string are values), its default otherwise.
C10_ValueElseDefault ==
    out.made =>
        \A f \in DeclaredFields(form) :
            out.result.model.val[f.name] =
                IF form.values[f.name] # None THEN form.values[f.name] ELSE f.default

\* the entries of the render list that refer to a name
FormEntriesOf(result, name) ==
    LET Refers(e) == e.kind # "help" /\ e.key = name IN SelectSeq(result.form, Refers)

\* the declared attribute carries no hidden hint at all
Unhinted(f) == "hidden" \notin DOMAIN f.kwargs

DeclaredAt(inst, name) ==
    CHOOSE i \in 1..Len(inst.items) : inst.items[i].name = name

Declared(inst, name) == inst.items[DeclaredAt(inst, name)]

\* the field names of a list follow the ordering key, ties in declared order
StableOrder(inst, names) ==
    \A i, j \in 1..Len(names) :
        (i < j /\ IsBaseField(Declared(inst, names[i]))
               /\ IsBaseField(Declared(inst, names[j]))) =>
            \/ Declared(inst, names[i]).order < Declared(inst, names[j]).order
            \/ /\ Declared(inst, names[i]).order = Declared(inst, names[j]).order
               /\ DeclaredAt(inst, names[i]) < DeclaredAt(inst, names[j])

\* the names the entries after the help entry refer to
FormRefs(result) == [i \in 1..(Len(result.form) - 1) |-> result.form[i + 1].key]

\* C12: the ordered field list of the registry is sorted by nondecreasing
\* ordering key with fields of equal key in declaration order, and so are the
\* form list and schema.required of every output of serialize.
C12_OrderingStable ==
    /\ StableOrder(form, Names(form.ordered_fields))
    /\ out.made =>
          /\ StableOrder(form, FormRefs(out.result))
          /\ StableOrder(form, out.result.schema.required)

\* C19: in every output of serialize each name of schema.required is a key
\* of schema.properties and a key of model, and a field that is hidden and
\* required is not in schema.required.
C19_RequiredListed ==
    out.made =>
        /\ \A n \in Range(out.result.schema.required) :
              /\ n \in DOMAIN out.result.schema.properties
              /\ n \in DOMAIN out.result.model.val
        /\ \A f \in DeclaredFields(form) :
              (MarkedHidden(f) /\ f.required) =>
                  f.name \notin Range(out.result.schema.required)

C19_Witness ==
    /\ out.made
    /\ out.result.schema.required # <<>>
    /\ \E f \in DeclaredFields(form) :
          /\ MarkedHidden(f) /\ f.required
          /\ f.name \in DOMAIN out.result.model.val

\* the items the loop of serialize does not skip
ShownItems(inst) ==
    LET NotSkipped(itm) == ~IsHiddenItem(itm)
    IN  SelectSeq(SerializeItems(inst), NotSkipped)

\* C20: in every output of serialize the form list starts with the one help
\* entry it holds, the entries after it refer, each name once and in field
\* iteration order, to exactly the keys of schema.properties, and every key of
\* schema.properties is a key of model.
C20_FormMatchesProperties ==
    out.made =>
        /\ Len(out.result.form) >= 1
        /\ out.result.form[1] = HelpEntry(form.meta["help_text"])
        /\ \A i \in 2..Len(out.result.form) : out.result.form[i].kind \in {"name", "select"}
        /\ FormRefs(out.result) = Names(ShownItems(form))
        /\ Range(FormRefs(out.result)) = DOMAIN out.result.schema.properties
        /\ Len(FormRefs(out.result)) = Cardinality(DOMAIN out.result.schema.properties)
        /\ DOMAIN out.result.schema.properties \subseteq DOMAIN out.result.model.val

C20_Witness ==
    /\ out.made
    /\ Len(out.result.form) = 3
    /\ out.result.form[2].kind = "select"
    /\ out.result.form[3].kind = "name"

\* a deserialize call returns in this step
CallReturns == des'.called /\ ~des.called

\* C13: a validating deserialize that ends in FormValidationError leaves the
\* field values, the non_data_fields list and the cache as they were before
\* the call, and a validating call changes the instance only when no
\* submitted key is missing from the cached list.
C13_CheckBeforeBind ==
    [][(CallReturns /\ des'.validate) =>
          /\ des'.outcome = "FormValidationError" =>
                /\ form'.values = form.values
                /\ form'.non_data_fields = form.non_data_fields
                /\ cache' = cache
          /\ form' # form =>
                /\ des'.outcome = "bound"
                /\ des'.hit
                /\ Range(des'.keys) \subseteq Range(CacheGet(cache, des'.key).model)]_vars

C13_Witness ==
    /\ des.called /\ des.validate
    /\ des.outcome = "FormValidationError"
    /\ "code" \in DOMAIN form.values \cap DOMAIN des.data
    /\ des.data["code"] = "abc"
    /\ form.values["code"] = None

\* C14: every deserialize call with validation on that reaches binding has
\* read form_key from the inbound data and fetched the cache entry, whatever
\* the inbound mapping, the empty one included.
C14_ValidationNeverSkipped ==
    (des.called /\ des.validate /\ des.outcome = "bound") =>
        /\ "form_key" \in Range(des.keys)
        /\ des.fetched

\* C15: after a validating deserialize that passes the key check, the
\* instance's non_data_fields is the non-data list of the cache entry of the
\* submitted form_key, and no name of that list has been bound.
C15_Adoption ==
    [][(CallReturns /\ des'.validate /\ des'.hit /\ des'.outcome = "bound") =>
          /\ form'.non_data_fields = CacheGet(cache, des'.data["form_key"]).non_data_fields
          /\ \A n \in DOMAIN form.values :
                n \in Range(CacheGet(cache, des'.data["form_key"]).non_data_fields)
                    => form'.values[n] = form.values[n]]_vars

C15_Witness ==
    /\ des.called /\ des.validate /\ des.hit
    /\ des.outcome = "bound"
    /\ des.before # form.non_data_fields
    /\ form.non_data_fields = <<"save">>

\* C18: a deserialize call with do_validation false reads and writes no cache
\* entry, draws no identifier, leaves non_data_fields as it was, raises
\* nothing whatever keys it is given, and binds the data.
C18_NoValidationFrame ==
    [][(CallReturns /\ ~des'.validate) =>
          /\ cache' = cache
          /\ issued' = issued
          /\ ~des'.fetched
          /\ form'.non_data_fields = form.non_data_fields
          /\ des'.outcome = "bound"
          /\ form' = Bind(form, form.non_data_fields, des'.keys, des'.data)]_vars

C18_Witness ==
    /\ des.called /\ ~des.validate
    /\ "evil" \in Range(des.keys)
    /\ des.data["form_key"] = "bogus"
    /\ des.outcome = "bound"
    /\ form.values["code"] = "abc"

\* a serialize call returns, or fails, in this step
RenderReturns == out'.made /\ ~out.made

RenderFails == out'.error # "" /\ out.error = ""

\* C16: a serialize call that returns has added exactly one entry to the
\* cache, under a key that held none, and changed no other entry; the
\* returned model's form_key is the key of that entry and the entry is live
\* when serialize returns.  A serialize call whose cache write fails hands
\* back no output and leaves the cache as it was.
C16_OneEntryPerRender ==
    [][/\ RenderReturns =>
            \E k \in DOMAIN cache' \ DOMAIN cache :
                /\ DOMAIN cache' = DOMAIN cache \cup {k}
                /\ \A j \in DOMAIN cache : cache'[j] = cache[j]
                /\ "form_key" \in DOMAIN out'.result.model.val
                /\ out'.result.model.val["form_key"] = k
                /\ CacheHas(cache', k, now')
       /\ RenderFails =>
            /\ ~out'.made
            /\ out'.result = NoOutput.result
            /\ cache' = cache]_vars

C16_Witness ==
    /\ out.made
    /\ CacheHas(cache, out.key, now)
    /\ \E j \in DOMAIN cache : j # out.key /\ ~CacheHas(cache, j, now)

\* C17: whatever renders, validations and expiries have come before, a
\* validation of a live key is judged against the snapshot the render of
\* that key wrote: it reads that snapshot whole and its verdict is the key
\* check against that snapshot's names; the snapshot written for a key is
\* never replaced.
C17_Isolation ==
    [][/\ \A k \in DOMAIN written :
            k \in DOMAIN written' /\ written'[k].value = written[k].value
       /\ (des'.called /\ des'.hit) =>
            /\ des'.key \in DOMAIN written'
            /\ des'.got = written'[des'.key].value
            /\ (des'.outcome = "FormValidationError")
                  = KeyCheck(des'.keys, written'[des'.key].value.model).raised
            /\ (des'.outcome = "bound")
                  = ~KeyCheck(des'.keys, written'[des'.key].value.model).raised]_vars

C17_Witness ==
    /\ des.called /\ des.hit
    /\ des.outcome = "FormValidationError"
    /\ \E j \in DOMAIN cache :
          /\ j # des.key
          /\ ~CacheHas(cache, j, now)
          /\ written[j].value # written[des.key].value

====
